---- MODULE Spec2Model ----
(***************************************************************************)
(* LogKeeper (src/src/logkeeper.ts): a static facade over a LogKeeper      *)
(* instance that owns a node:fs WriteStream.  The model follows the event  *)
(* loop: a public call (info/warning/error/critical/saveLogs) runs to its  *)
(* first await in one step; the completion of mkdir and the completion of  *)
(* a stream's pending operation (open, end) are later steps.               *)
(*                                                                         *)
(* Strings the code formats are sequences of one-character strings, so     *)
(* that padding and separators are computed and can be inspected.          *)
(***************************************************************************)
EXTENDS Integers, Sequences, FiniteSets, TLC

VARIABLES
    now,        \* seconds elapsed on the wall clock since the first Date
    instance,   \* LogKeeper.instance: index into instances, 0 = undefined
    instances,  \* every LogKeeper object constructed so far
    streams,    \* the WriteStreams created so far, by the instance that created them
    files,      \* the file system under logs/: path -> lines
    console,    \* what console.error has received, in order
    crashed,    \* an uncaught exception has ended the process
    calls,      \* history of the public calls and their outcomes
    probe       \* inputs/outputs of the formatting functions (ProbeSpec)

vars == <<now, instance, instances, streams, files, console, crashed, calls, probe>>

\* ------------------------------------------------------------------ bounds
MaxCalls == 2
MaxClock == 1

\* ----------------------------------------------------------------- strings
Digits == <<"0", "1", "2", "3", "4", "5", "6", "7", "8", "9">>

\* String(n) for a non-negative integer: its decimal digits.
RECURSIVE ToStr(_)
ToStr(n) == IF n < 10 THEN <<Digits[n + 1]>>
            ELSE ToStr(n \div 10) \o <<Digits[(n % 10) + 1]>>

\* s.padStart(len, ch): ch repeated in front until the length is len.
RECURSIVE padStart(_, _, _)
padStart(s, len, ch) == IF Len(s) >= len THEN s ELSE padStart(<<ch>> \o s, len, ch)

\* LogLevel (./log-levels): the tag each level prints.
LogLevel == [INFO     |-> <<"I", "N", "F", "O">>,
             WARNING  |-> <<"W", "A", "R", "N", "I", "N", "G">>,
             ERROR    |-> <<"E", "R", "R", "O", "R">>,
             CRITICAL |-> <<"C", "R", "I", "T", "I", "C", "A", "L">>]

Levels == DOMAIN LogLevel

\* The messages callers log.
Messages == {<<"a">>}

\* ------------------------------------------------------------------- dates
\* A Date as its local-time getters return it: getMonth() is 0-based.
MkDate(y, mo, d, h, mi, s) ==
    [year |-> y, month |-> mo, date |-> d, hours |-> h, minutes |-> mi, seconds |-> s]

\* new Date() when the wall clock shows `t` seconds after 2025-10-19 23:59:59.
DateAt(t) ==
    LET total == 23 * 3600 + 59 * 60 + 59 + t
    IN  MkDate(2025, 9, 19 + (total \div 86400), (total \div 3600) % 24,
               (total \div 60) % 60, total % 60)

formatFilenameTimestamp_swapped(date) ==
    LET year    == ToStr(date.year)
        month   == padStart(ToStr(date.month + 1), 2, "0")
        day     == padStart(ToStr(date.date), 2, "0")
        hours   == padStart(ToStr(date.hours), 2, "0")
        minutes == padStart(ToStr(date.minutes), 2, "0")
        seconds == padStart(ToStr(date.minutes), 2, "0")
    IN  year \o <<"-">> \o month \o <<"-">> \o day \o <<"_">> \o
        hours \o <<"-">> \o minutes \o <<"-">> \o seconds

formatFilenameTimestamp(date) ==
    LET year    == ToStr(date.year)
        month   == padStart(ToStr(date.month + 1), 2, "0")
        day     == padStart(ToStr(date.date), 2, "0")
        hours   == padStart(ToStr(date.hours), 2, "0")
        minutes == padStart(ToStr(date.minutes), 2, "0")
        seconds == padStart(ToStr(date.seconds), 2, "0")
    IN  year \o <<"-">> \o month \o <<"-">> \o day \o <<"_">> \o
        hours \o <<"-">> \o minutes \o <<"-">> \o seconds

formatLogTimestamp_nopad(date) ==
    ToStr(date.hours) \o <<":">> \o ToStr(date.minutes) \o <<":">> \o ToStr(date.seconds)

formatLogTimestamp(date) ==
    LET hours   == padStart(ToStr(date.hours), 2, "0")
        minutes == padStart(ToStr(date.minutes), 2, "0")
        seconds == padStart(ToStr(date.seconds), 2, "0")
    IN  hours \o <<":">> \o minutes \o <<":">> \o seconds

\* `[${timestamp}] ${level}: ${message}\n`
logEntry(date, level, message) ==
    <<"[">> \o formatLogTimestamp(date) \o <<"]", " ">> \o LogLevel[level] \o
    <<":", " ">> \o message \o <<"\n">>

\* join(this.logDir, `${filenameTimestamp}.log`) with logDir = 'logs'
logFile(date) ==
    <<"l", "o", "g", "s", "/">> \o formatFilenameTimestamp(date) \o
    <<".", "l", "o", "g">>

\* ----------------------------------------------------------------- program
NotInitMsg   == "LogKeeper not initialized"
FailedMsg    == "Failed to initialize LogKeeper:"
InitErrorMsg == "Error initializing logger:"

\* saveLogs() calls whose promise has resolved.
SavesResolved ==
    Cardinality({k \in 1..Len(calls) : calls[k].op = "save" /\ calls[k].outcome = "resolved"})

\* The constructor: logDir, logFile from new Date(), then initializeLogger()
\* runs up to `await mkdir(...)` and is left pending; writeStream is still null.
\* savesDone (history) counts the saveLogs() calls completed before.
NewLogKeeper ==
    [logFile     |-> logFile(DateAt(now)),
     writeStream |-> 0,
     init        |-> "mkdir",
     savesDone   |-> SavesResolved]

getInstance_singleton ==
    IF instance = 0
    THEN [list |-> Append(instances, NewLogKeeper), idx |-> Len(instances) + 1]
    ELSE [list |-> instances, idx |-> instance]

\* LogKeeper.instance = new LogKeeper(); return LogKeeper.instance
getInstance ==
    [list |-> Append(instances, NewLogKeeper), idx |-> Len(instances) + 1]

NotInitialized_never(inst) == FALSE

\* if (!instance.writeStream)
NotInitialized(inst) == inst.writeStream = 0

\* if (instance.writeStream)
HasStream(inst) == inst.writeStream # 0

EmitCall(level, entry, outcome) ==
    [op |-> "emit", level |-> level, line |-> entry, outcome |-> outcome,
     afterSave |-> SavesResolved > 0, stream |-> 0]

SaveCall(outcome, sid) ==
    [op |-> "save", level |-> "", line |-> <<>>, outcome |-> outcome,
     afterSave |-> SavesResolved > 0, stream |-> sid]

\* writeLog(level, message).  A write on a stream that is still opening is
\* queued by the stream; a write on an open stream appends the chunk to the
\* file; a write after end() makes the stream emit 'error', and the code
\* registers no 'error' listener, so the event is an uncaught exception.
\* Dereferencing a null writeStream throws a TypeError to the caller.
writeLog(level, message) ==
    /\ ~crashed
    /\ Len(calls) < MaxCalls
    /\ LET g     == getInstance
           inst  == g.list[g.idx]
           entry == logEntry(DateAt(now), level, message)
       IN  /\ instance' = g.idx
           /\ instances' = g.list
           /\ IF NotInitialized(inst)
              THEN /\ console' = Append(console, NotInitMsg)
                   /\ calls' = Append(calls, EmitCall(level, entry, "dropped"))
                   /\ UNCHANGED <<streams, files, crashed>>
              ELSE IF inst.writeStream = 0
              THEN /\ calls' = Append(calls, EmitCall(level, entry, "threw"))
                   /\ UNCHANGED <<streams, files, crashed, console>>
              ELSE LET sid == inst.writeStream
                       s   == streams[sid]
                   IN  /\ calls' = Append(calls, EmitCall(level, entry, "written"))
                       /\ console' = console
                       /\ IF s.ending \/ s.state \in {"closed", "openfailed", "endfailed"}
                          THEN /\ crashed' = TRUE
                               /\ UNCHANGED <<streams, files>>
                          ELSE IF s.state = "opening"
                          THEN /\ streams' = [streams EXCEPT ![sid].buf = Append(@, entry)]
                               /\ UNCHANGED <<files, crashed>>
                          ELSE /\ files' = [files EXCEPT ![s.path] = Append(@, entry)]
                               /\ UNCHANGED <<streams, crashed>>
    /\ UNCHANGED <<now, probe>>

\* The LogLevel each public method passes to writeLog.
MethodLevel == [info |-> "INFO", warning |-> "WARNING", error |-> "ERROR",
                critical |-> "CRITICAL"]

info(message)     == writeLog(MethodLevel.info, message)
warning(message)  == writeLog(MethodLevel.warning, message)
error(message)    == writeLog(MethodLevel.error, message)
critical(message) == writeLog(MethodLevel.critical, message)

\* initializeLogger() of instance i resumes after `await mkdir(...)`.
\* ok: createWriteStream returns a stream that starts opening the file
\* (flags 'a'), and the stream is assigned to writeStream.
\* ~ok: mkdir rejected; the catch block reports on console.error.
\* Either way the returned promise resolves, so the constructor's .catch
\* handler does not run.
initializeLogger(i, ok) ==
    /\ ~crashed
    /\ i \in 1..Len(instances)
    /\ instances[i].init = "mkdir"
    /\ IF ok
       THEN /\ streams' = [s \in DOMAIN streams \cup {i} |->
                   IF s = i
                   THEN [path |-> instances[i].logFile, state |-> "opening",
                         ending |-> FALSE, buf |-> <<>>, endCalls |-> 0]
                   ELSE streams[s]]
            /\ instances' = [instances EXCEPT ![i].writeStream = i,
                                              ![i].init = "ready"]
            /\ console' = console
       ELSE /\ instances' = [instances EXCEPT ![i].init = "failed"]
            /\ console' = Append(console, FailedMsg)
            /\ streams' = streams
    /\ UNCHANGED <<now, instance, files, crashed, calls, probe>>

\* saveLogs(): with a stream, end(callback) is requested and the promise
\* stays pending until the callback; without one the promise resolves at once.
saveLogs ==
    /\ ~crashed
    /\ Len(calls) < MaxCalls
    /\ LET g    == getInstance
           inst == g.list[g.idx]
       IN  /\ instance' = g.idx
           /\ instances' = g.list
           /\ IF HasStream(inst)
              THEN IF inst.writeStream = 0
                   THEN /\ calls' = Append(calls, SaveCall("rejected", 0))
                        /\ streams' = streams
                   ELSE /\ calls' = Append(calls, SaveCall("pending", inst.writeStream))
                        /\ streams' = [streams EXCEPT ![inst.writeStream].ending = TRUE,
                                                      ![inst.writeStream].endCalls = @ + 1]
              ELSE /\ calls' = Append(calls, SaveCall("resolved", 0))
                   /\ streams' = streams
    /\ UNCHANGED <<now, files, console, crashed, probe>>

\* The file system completes the pending operation of stream sid.
\* Opening, ok: the file exists from now on and the queued chunks are written.
\* Opening, ~ok: the stream emits 'error'; no listener is registered, so the
\*   process ends with an uncaught exception.
\* Ending, ok: the end callback runs without error: writeStream = null on the
\*   instances holding the stream, the awaiting saveLogs() promises resolve.
\* Ending, ~ok: the end callback runs with the error: the promises reject.
StreamComplete(sid, ok) ==
    /\ ~crashed
    /\ sid \in DOMAIN streams
    /\ LET s == streams[sid]
       IN  /\ s.state = "opening" \/ (s.state = "open" /\ s.ending)
           /\ IF s.state = "opening"
              THEN IF ok
                   THEN /\ streams' = [streams EXCEPT ![sid].state = "open", ![sid].buf = <<>>]
                        /\ files' = IF s.path \in DOMAIN files
                                    THEN [files EXCEPT ![s.path] = @ \o s.buf]
                                    ELSE [p \in DOMAIN files \cup {s.path} |->
                                             IF p = s.path THEN s.buf ELSE files[p]]
                        /\ UNCHANGED <<crashed, instances, calls>>
                   ELSE /\ streams' = [streams EXCEPT ![sid].state = "openfailed"]
                        /\ crashed' = TRUE
                        /\ UNCHANGED <<files, instances, calls>>
              ELSE /\ streams' = [streams EXCEPT ![sid].state =
                                     IF ok THEN "closed" ELSE "endfailed"]
                   /\ instances' = [i \in 1..Len(instances) |->
                         IF ok /\ instances[i].writeStream = sid
                         THEN [instances[i] EXCEPT !.writeStream = 0]
                         ELSE instances[i]]
                   /\ calls' = [k \in 1..Len(calls) |->
                         IF calls[k].op = "save" /\ calls[k].outcome = "pending"
                            /\ calls[k].stream = sid
                         THEN [calls[k] EXCEPT !.outcome =
                                  IF ok THEN "resolved" ELSE "rejected"]
                         ELSE calls[k]]
                   /\ UNCHANGED <<files, crashed>>
    /\ UNCHANGED <<now, instance, console, probe>>

\* The wall clock advances by one second.
Tick ==
    /\ ~crashed
    /\ now < MaxClock
    /\ now' = now + 1
    /\ UNCHANGED <<instance, instances, streams, files, console, crashed, calls, probe>>

NoProbe == [kind |-> "none", d1 |-> DateAt(0), d2 |-> DateAt(0), method |-> "info",
            message |-> <<>>, out1 |-> <<>>, out2 |-> <<>>]

Init ==
    /\ now = 0
    /\ instance = 0
    /\ instances = <<>>
    /\ streams = <<>>
    /\ files = <<>>
    /\ console = <<>>
    /\ crashed = FALSE
    /\ calls = <<>>
    /\ probe = NoProbe

Next ==
    \/ \E m \in Messages : info(m)
    \/ \E m \in Messages : warning(m)
    \/ \E m \in Messages : error(m)
    \/ \E m \in Messages : critical(m)
    \/ saveLogs
    \/ \E i \in 1..Len(instances), ok \in BOOLEAN : initializeLogger(i, ok)
    \/ \E sid \in DOMAIN streams, ok \in BOOLEAN : StreamComplete(sid, ok)
    \/ Tick

Spec == Init /\ [][Next]_vars

\* ------------------------------------------------- the formatting functions
\* The Dates and messages the formatting functions are applied to: one- and
\* two-digit values of every padded component, a three-digit year.
ProbeDates ==
    {MkDate(y, mo, d, h, mi, s) :
        y \in {999, 2025}, mo \in {0, 10}, d \in {1, 11},
        h \in {1, 11, 23}, mi \in {0, 1, 11}, s \in {0, 1, 11}}

ProbeMessages == {<<>>, <<"a">>, <<"b", " ", "c">>, <<"[", "1", "]", ":">>}

\* A public method formats one entry: what writeLog hands to write().
ProbeLine ==
    /\ probe.kind = "none"
    /\ \E d \in ProbeDates, method \in DOMAIN MethodLevel, m \in ProbeMessages :
          probe' = [kind |-> "line", d1 |-> d, d2 |-> d, method |-> method,
                    message |-> m, out1 |-> logEntry(d, MethodLevel[method], m),
                    out2 |-> <<>>]
    /\ UNCHANGED <<now, instance, instances, streams, files, console, crashed, calls>>

\* Two constructors at two wall-clock times compute their file names.
ProbeName ==
    /\ probe.kind = "none"
    /\ \E d1 \in ProbeDates, d2 \in ProbeDates :
          probe' = [kind |-> "name", d1 |-> d1, d2 |-> d2, method |-> "info",
                    message |-> <<>>, out1 |-> formatFilenameTimestamp(d1),
                    out2 |-> formatFilenameTimestamp(d2)]
    /\ UNCHANGED <<now, instance, instances, streams, files, console, crashed, calls>>

ProbeNext == ProbeLine \/ ProbeName

ProbeSpec == Init /\ [][ProbeNext]_vars

\* ------------------------------------------------------------------ claims
EmitIdx == {k \in 1..Len(calls) : calls[k].op = "emit"}
SaveIdx == {k \in 1..Len(calls) : calls[k].op = "save"}

\* No directory creation, file open or close has failed.
NoFault ==
    /\ ~crashed
    /\ \A i \in 1..Len(instances) : instances[i].init # "failed"
    /\ \A s \in DOMAIN streams : streams[s].state \notin {"openfailed", "endfailed"}

\* Every initialisation started so far has run to its end.
Quiet ==
    /\ \A i \in 1..Len(instances) : instances[i].init # "mkdir"
    /\ \A s \in DOMAIN streams : streams[s].state # "opening"

\* The entries of the emit calls, in call order.
RECURSIVE LinesFrom(_)
LinesFrom(k) ==
    IF k > Len(calls) THEN <<>>
    ELSE IF calls[k].op = "emit" THEN <<calls[k].line>> \o LinesFrom(k + 1)
    ELSE LinesFrom(k + 1)

\* C1: n emit calls issued before any saveLogs(), every sink opening
\* successfully, leave the session's log file with exactly the n entries, in
\* call order.
C1_AllEmitsInFile ==
    (SaveIdx = {} /\ EmitIdx # {} /\ NoFault /\ Quiet)
        => \E p \in DOMAIN files :
              /\ files[p] = LinesFrom(1)
              /\ \A q \in DOMAIN files \ {p} : files[q] = <<>>

\* C2: at most one session (one LogKeeper instance, one write stream) has ever
\* been created, whatever calls were made.
C2_AtMostOneSession ==
    /\ Len(instances) <= 1
    /\ Cardinality(DOMAIN streams) <= 1

\* C3: once a saveLogs() promise has resolved, every entry emitted before that
\* call is in a file whose write stream has been ended (fault-free runs).
C3_SavedMeansWrittenAndClosed ==
    NoFault =>
        \A k \in SaveIdx : calls[k].outcome = "resolved" =>
            \A j \in EmitIdx : j < k =>
                \E s \in DOMAIN streams :
                    /\ streams[s].state = "closed"
                    /\ streams[s].path \in DOMAIN files
                    /\ \E n \in 1..Len(files[streams[s].path]) :
                          files[streams[s].path][n] = calls[j].line

\* C4: no write stream is ever created for an instance constructed after a
\* saveLogs() call has completed (no sink is opened again after closing).
C4_NoSinkAfterSave ==
    \A s \in DOMAIN streams : instances[s].savesDone = 0

\* C5: an emit call made after a saveLogs() has completed returns normally,
\* reports exactly one failure on console.error, and changes neither a file
\* nor any stream (the entry is dropped, not queued).
C5_EmitAfterSaveDropped ==
    [][ LET n == Len(calls)
        IN  (SavesResolved > 0 /\ Len(calls') = n + 1 /\ calls'[n + 1].op = "emit")
               => /\ calls'[n + 1].outcome = "dropped"
                  /\ console' = Append(console, NotInitMsg)
                  /\ files' = files
                  /\ streams' = streams
                  /\ crashed' = FALSE ]_vars

\* C5 witness: saveLogs() resolved, a log file exists, and a later emit was
\* dropped.
C5_Witness ==
    /\ DOMAIN files # {}
    /\ \E k \in EmitIdx : calls[k].afterSave /\ calls[k].outcome = "dropped"
    /\ Len(console) > 0

\* C6: a saveLogs() call made after an earlier one has completed resolves
\* without error and requests no end() on any stream; no stream is asked to
\* end more than once.
C6_SaveIdempotent ==
    /\ [](\A s \in DOMAIN streams : streams[s].endCalls <= 1)
    /\ [][ LET n == Len(calls)
           IN  (SavesResolved > 0 /\ Len(calls') = n + 1 /\ calls'[n + 1].op = "save")
                  => /\ calls'[n + 1].outcome = "resolved"
                     /\ streams' = streams
                     /\ files' = files
                     /\ crashed' = crashed ]_vars

\* C6 witness: two saveLogs() calls in a row have both resolved while a write
\* stream is open.
C6_Witness ==
    /\ Len(calls) = 2
    /\ calls[1].op = "save" /\ calls[1].outcome = "resolved"
    /\ calls[2].op = "save" /\ calls[2].outcome = "resolved"
    /\ \E s \in DOMAIN streams : streams[s].state = "open"

\* Operations that failed: dropped or throwing emits, failed initialisations.
FailedOps ==
    Cardinality({k \in EmitIdx : calls[k].outcome \in {"dropped", "threw"}})
    + Cardinality({i \in 1..Len(instances) : instances[i].init = "failed"})
    + Cardinality({s \in DOMAIN streams : streams[s].state = "openfailed"})

\* C7: when a sink initialisation has failed (mkdir or the file open), the
\* process has not crashed, no emit has thrown or written, and console.error
\* has received exactly one report per failed operation.
C7_InitFailureTolerated ==
    (\/ \E i \in 1..Len(instances) : instances[i].init = "failed"
     \/ \E s \in DOMAIN streams : streams[s].state = "openfailed")
        => /\ ~crashed
           /\ \A k \in EmitIdx : calls[k].outcome = "dropped"
           /\ Len(console) = FailedOps

\* C8: a failed close rejects the saveLogs() promise that awaited it, and no
\* failure caused by an emit (its lazily opened sink included) reaches the
\* caller as an exception or the process as an unhandled error: it is reported
\* on console.error.
C8_CloseSurfacedEmitSwallowed ==
    /\ \A k \in SaveIdx :
          (calls[k].stream \in DOMAIN streams
           /\ streams[calls[k].stream].state = "endfailed")
              => calls[k].outcome = "rejected"
    /\ \A k \in EmitIdx : calls[k].outcome # "threw"
    /\ ~crashed
    /\ Len(console) >= Cardinality({k \in EmitIdx : calls[k].outcome = "dropped"})

DigitVal(c) == CHOOSE v \in 0..9 : Digits[v + 1] = c

\* The tag the line format prescribes for each public method.
ExpectedTag(method) ==
    CASE method = "info"     -> <<"I", "N", "F", "O">>
      [] method = "warning"  -> <<"W", "A", "R", "N", "I", "N", "G">>
      [] method = "error"    -> <<"E", "R", "R", "O", "R">>
      [] method = "critical" -> <<"C", "R", "I", "T", "I", "C", "A", "L">>

C10_FilenameInjective ==
    (probe.kind = "name" /\ probe.d1 # probe.d2) => probe.out1 # probe.out2

\* C10 witness: two Dates exactly one second apart were formatted.
C10_Witness ==
    /\ probe.kind = "name"
    /\ probe.d2 = [probe.d1 EXCEPT !.seconds = @ + 1]

\* How often console.error has received the message msg.
Reports(msg) == Cardinality({n \in 1..Len(console) : console[n] = msg})

\* C11: write() is only ever called on a stream that has been assigned to the
\* instance and on which end() has not been called: no emit dereferences a
\* null writeStream, and an emit that is not dropped finds its stream opening
\* or open and not ending.
C11_WriteOnlyToOpenSink ==
    /\ [](\A k \in EmitIdx : calls[k].outcome \in {"dropped", "written"})
    /\ [][ LET n == Len(calls)
           IN  (Len(calls') = n + 1 /\ calls'[n + 1].op = "emit"
                /\ calls'[n + 1].outcome # "dropped")
                  => LET sid == instances'[instance'].writeStream
                     IN  /\ sid \in DOMAIN streams
                         /\ ~streams[sid].ending
                         /\ streams[sid].state \in {"opening", "open"} ]_vars

\* C11 witness: two emits were made, a stream they caused has opened, and
\* nothing has been written to a file or queued on a stream.
C11_Witness ==
    /\ Len(calls) = 2
    /\ \A k \in 1..2 : calls[k].op = "emit"
    /\ \E s \in DOMAIN streams : streams[s].state = "open"
    /\ \A p \in DOMAIN files : files[p] = <<>>
    /\ \A s \in DOMAIN streams : streams[s].buf = <<>>

C13_NoStreamLeftOpen ==
    \A k \in SaveIdx : calls[k].outcome = "resolved" =>
        \A s \in DOMAIN streams :
            s < k => streams[s].state \notin {"opening", "open"}

\* An instance whose initialisation failed: mkdir rejected, or the file of
\* the stream it created could not be opened.
InitFailed(i) ==
    \/ instances[i].init = "failed"
    \/ (i \in DOMAIN streams /\ streams[i].state = "openfailed")

\* C14: the constructor's catch handler never reports 'Error initializing
\* logger:', and every failed initialisation of an instance has produced
\* exactly one 'Failed to initialize LogKeeper' report and left the
\* instance's writeStream null.
C14_InitFailureSwallowed ==
    /\ Reports(InitErrorMsg) = 0
    /\ Reports(FailedMsg) =
          Cardinality({i \in 1..Len(instances) : InitFailed(i)})
    /\ \A i \in 1..Len(instances) : InitFailed(i) => instances[i].writeStream = 0

====
